---------------------------- MODULE Spec2Model ----------------------------
(***************************************************************************)
(* Model of play.py: the PCM5100 (I2S) playback smoke test.                *)
(*                                                                         *)
(* main() is a sequential program; every blocking step of it (a lookup on  *)
(* the search path followed later by a launch, a child process running to  *)
(* completion) is one action.  The environment is the set of installed     *)
(* tools, which may shrink at any moment of the run (Vanish), the          *)
(* exit status each child process chooses, and the text aplay prints.      *)
(*                                                                         *)
(* Python values: a str is a TLA+ string, a list is a sequence, an         *)
(* Optional[T] is the empty sequence (None) or a one-element sequence.     *)
(***************************************************************************)
EXTENDS Integers, Sequences, FiniteSets, TLC

(***************************************************************************)
(* Bounds of the model.                                                    *)
(***************************************************************************)
\* --loops ranges over (0 - MaxNegLoops) .. MaxLoops
MaxLoops == 2
MaxNegLoops == 1
\* an infinite play loop is followed for at most this many play attempts
MaxInfPlays == 2

LoopCounts == (0 - MaxNegLoops)..MaxLoops

\* exit statuses a child process may choose
ExitCodes == {0, 1, 5}

\* the external programs the script looks for
Tools == {"mpg123", "ffplay", "ffmpeg", "aplay"}

\* values of --file, the working directory, and which of them are absolute
Cwd == "/home/pi"
Files == {"my song.mp3", "/music/track1.mp3"}
AbsoluteFiles == {"/music/track1.mp3"}

\* values of --device (None when the flag is omitted)
None == <<>>
Some(x) == <<x>>
Devices == {None, Some("default"), Some("plughw:1,0")}

\* what `aplay -l` and `aplay -L` may print
CardTexts == {"\n", "card 1: sndrpihifiberry [snd_rpi_hifiberry_dac]\n"}
PcmTexts == {"default\n"}

(***************************************************************************)
(* Built-in conversions used by the script.                                *)
(***************************************************************************)
Digit(d) ==
    CASE d = 0 -> "0" [] d = 1 -> "1" [] d = 2 -> "2" [] d = 3 -> "3"
      [] d = 4 -> "4" [] d = 5 -> "5" [] d = 6 -> "6" [] d = 7 -> "7"
      [] d = 8 -> "8" [] d = 9 -> "9"

\* str(n) for an int: the decimal numeral, with a leading "-" when negative
RECURSIVE str(_)
str(n) ==
    IF n < 0 THEN "-" \o str(0 - n)
    ELSE IF n < 10 THEN Digit(n)
    ELSE str(n \div 10) \o Digit(n % 10)

\* int(s) for a decimal numeral s (the numerals the script parses are the
\* ones it wrote with str)
int(s) == CHOOSE n \in (0 - MaxNegLoops - 1)..(MaxLoops + 1) : str(n) = s

\* max(a, b)
max(a, b) == IF a >= b THEN a ELSE b

\* Path(f).expanduser().resolve(): an absolute path is kept, a relative one
\* is joined to the working directory
Resolve(f) == IF f \in AbsoluteFiles THEN f ELSE Cwd \o "/" \o f

\* s.strip() on the texts of the model
strip(s) ==
    CASE s = "\n" -> ""
      [] s = "default\n" -> "default"
      [] s = "card 1: sndrpihifiberry [snd_rpi_hifiberry_dac]\n" ->
             "card 1: sndrpihifiberry [snd_rpi_hifiberry_dac]"
      [] OTHER -> s

\* shlex.quote(x): x itself when it is non-empty and made of safe characters
\* only, else x in single quotes (no string of the model holds a quote)
UnsafeStrings == {"", "/home/pi/my song.mp3"}
shlex_quote(x) == IF x \in UnsafeStrings THEN "'" \o x \o "'" ELSE x

\* " ".join(xs)
RECURSIVE join(_)
join(xs) ==
    IF xs = <<>> THEN ""
    ELSE IF Len(xs) = 1 THEN xs[1]
    ELSE xs[1] \o " " \o join(Tail(xs))

(***************************************************************************)
(* Cmd                                                                     *)
(***************************************************************************)
Cmd(exe, args) == [exe |-> exe, args |-> args]

as_list(cmd) == <<cmd.exe>> \o cmd.args

pretty(cmd) == join([i \in 1..Len(as_list(cmd)) |-> shlex_quote(as_list(cmd)[i])])

\* where a tool lives when it is installed, and Path(p).name of such a path
ToolPath(name) == "/usr/bin/" \o name
PathName(p) == CHOOSE t \in Tools : ToolPath(t) = p


(***************************************************************************)
(* State                                                                   *)
(***************************************************************************)
VARIABLES
    file,          \* args.file
    device,        \* args.device (Optional[str])
    loops,         \* args.loops
    list_devices,  \* args.list_devices
    dry_run,       \* args.dry_run
    existing,      \* the absolute paths that exist as files
    is_pi,         \* what _is_raspberry_pi() finds on this host
    installed,     \* the tools currently on the search path
    pc,            \* position of main()
    aplay_l,       \* main's aplay_l
    aplay_L,       \* main's aplay_L
    candidates,    \* main's candidates
    idx,           \* position of `for cmd in candidates` (1-based)
    call,          \* arguments of the running _run_ffmpeg_to_wav_then_aplay call
    plays,         \* completed iterations of the pipeline's play loop
    tempDir,       \* the pipeline's TemporaryDirectory: "none", "exists", "removed"
    pipeRet,       \* what _run_ffmpeg_to_wav_then_aplay returned (Optional[int])
    exitStatus,    \* the process's exit status (Optional[int])
    out,           \* lines printed to stdout
    err,           \* lines printed to stderr
    runs           \* every subprocess.run call so far: argv and what came of it

args == <<file, device, loops, list_devices, dry_run>>
env == <<existing, is_pi>>
vars == <<file, device, loops, list_devices, dry_run, existing, is_pi,
          installed, pc, aplay_l, aplay_L, candidates, idx, call, plays,
          tempDir, pipeRet, exitStatus, out, err, runs>>

mp3_path == Resolve(file)

(***************************************************************************)
(* Helpers of the script                                                   *)
(***************************************************************************)
\* shutil.which(name)
_which(name) == IF name \in installed THEN Some(ToolPath(name)) ELSE None

\* whether the executable at path p can still be launched
Launchable(p) == \E t \in installed : ToolPath(t) = p

\* a child process that ran to completion with status rc, one whose output
\* was captured and whose status the script never reads, and a launch that
\* raised FileNotFoundError
Ran(argv, rc) == [argv |-> argv, result |-> <<"exited", rc>>]
Captured(argv) == [argv |-> argv, result |-> <<"captured">>]
NotLaunched(argv) == [argv |-> argv, result |-> <<"FileNotFoundError">>]

\* whether one of the keywords occurs in text.lower(); on the texts of the
\* model only the hifiberry card line holds one
ContainsKeyword(text) ==
    text = "card 1: sndrpihifiberry [snd_rpi_hifiberry_dac]\n"

\* the keywords hold no newline, so one occurs in aplay_l + "\n" + aplay_L
\* exactly when it occurs in one of the two texts
_guess_pcm5100_card_present(l, L) == ContainsKeyword(l) \/ ContainsKeyword(L)

\* the fixed text of _print_i2s_setup_hint: its first line (the checklist that
\* follows it is constant text and holds characters a TLA+ string cannot)
I2sSetupHint == "PCM5100/I2S card not detected in ALSA output."

NoBackendMessage ==
    "No playback backend found. Install one of: mpg123, ffplay (ffmpeg), or ffmpeg+aplay.\n"
    \o "Examples:\n"
    \o "  sudo apt update\n"
    \o "  sudo apt install -y mpg123\n"
    \o "or:\n"
    \o "  sudo apt install -y ffmpeg alsa-utils"

Placeholder == "(aplay not found or no output)"

Traceback == "Traceback (most recent call last): ... FileNotFoundError"

(***************************************************************************)
(* _backend_commands                                                       *)
(***************************************************************************)
\* `if device:` -- None and "" are both false
Truthy(d) == d # None /\ d[1] # ""

Mpg123DeviceArgs(d) == IF Truthy(d) THEN <<"-a", d[1]>> ELSE <<>>

\* FfplayLoopArgs with backend A's convention (the count itself)
FfplayLoopArgs_AsMpg123(n) ==
    IF n < 0 THEN <<"-loop", "0">>
    ELSE IF n > 1 THEN <<"-loop", str(n)>>
    ELSE <<>>

Mpg123LoopArgs(n) ==
    IF n < 0 THEN <<"--loop", "-1">>
    ELSE IF n > 1 THEN <<"--loop", str(n)>>
    ELSE <<>>

FfplayLoopArgs(n) ==
    IF n < 0 THEN <<"-loop", "0">>
    ELSE IF n > 1 THEN <<"-loop", str(n - 1)>>
    ELSE <<>>

PipelineExe == "__ffmpeg_aplay__"

\* `device or "default"`
DeviceOrDefault(d) == IF Truthy(d) THEN d[1] ELSE "default"

\* _backend_commands with the ffplay block ahead of the mpg123 block
_backend_commands_FfplayFirst(path, d, n) ==
    LET mpg123 == _which("mpg123")
        ffplay == _which("ffplay")
        ffmpeg == _which("ffmpeg")
        aplay  == _which("aplay")
        A == IF mpg123 # None
             THEN <<Cmd(mpg123[1], Mpg123DeviceArgs(d) \o Mpg123LoopArgs(n) \o <<path>>)>>
             ELSE <<>>
        B == IF ffplay # None
             THEN <<Cmd(ffplay[1], <<"-nodisp", "-autoexit", "-loglevel", "error">>
                                     \o FfplayLoopArgs(n) \o <<path>>)>>
             ELSE <<>>
        C == IF ffmpeg # None /\ aplay # None
             THEN <<Cmd(PipelineExe, <<path, DeviceOrDefault(d), str(n)>>)>>
             ELSE <<>>
    IN  B \o A \o C

_backend_commands(path, d, n) ==
    LET mpg123 == _which("mpg123")
        ffplay == _which("ffplay")
        ffmpeg == _which("ffmpeg")
        aplay  == _which("aplay")
        A == IF mpg123 # None
             THEN <<Cmd(mpg123[1], Mpg123DeviceArgs(d) \o Mpg123LoopArgs(n) \o <<path>>)>>
             ELSE <<>>
        B == IF ffplay # None
             THEN <<Cmd(ffplay[1], <<"-nodisp", "-autoexit", "-loglevel", "error">>
                                     \o FfplayLoopArgs(n) \o <<path>>)>>
             ELSE <<>>
        C == IF ffmpeg # None /\ aplay # None
             THEN <<Cmd(PipelineExe, <<path, DeviceOrDefault(d), str(n)>>)>>
             ELSE <<>>
    IN  A \o B \o C

(***************************************************************************)
(* _run_ffmpeg_to_wav_then_aplay: the command lines and the loop bound     *)
(***************************************************************************)
TempDirPath == "/tmp/pcm5100_test_x"
wav_path == TempDirPath \o "/decoded.wav"

DecodeArgv(ffmpeg, path) ==
    <<ffmpeg, "-hide_banner", "-loglevel", "error", "-y", "-i", path,
      "-ac", "2", "-ar", "44100", wav_path>>

PlayArgv(aplay, d) ==
    <<aplay>> \o (IF d # "" /\ d # "default" THEN <<"-D", d>> ELSE <<>>) \o <<wav_path>>

\* PlayIterations with one iteration too many
PlayIterations_OneMore(n) == max(1, n) + 1

\* range(max(1, loops)) of the finite loop
PlayIterations(n) == max(1, n)

(***************************************************************************)
(* Init: main() has parsed its arguments                                   *)
(***************************************************************************)
Init ==
    /\ file \in Files
    /\ device \in Devices
    /\ loops \in LoopCounts
    /\ list_devices \in BOOLEAN
    /\ dry_run \in BOOLEAN
    /\ existing \in {{}} \cup {{Resolve(f)} : f \in Files}
    /\ is_pi \in BOOLEAN
    /\ installed \in SUBSET Tools
    /\ pc = "validate"
    /\ aplay_l = ""
    /\ aplay_L = ""
    /\ candidates = <<>>
    /\ idx = 1
    /\ call = None
    /\ plays = 0
    /\ tempDir = "none"
    /\ pipeRet = None
    /\ exitStatus = None
    /\ out = <<>>
    /\ err = <<>>
    /\ runs = <<>>

(***************************************************************************)
(* The environment: a tool is removed from the search path at any moment   *)
(* of the run of main()                                                    *)
(***************************************************************************)
Vanish ==
    /\ pc \notin {"done", "crashed"}
    /\ \E t \in installed : installed' = installed \ {t}
    /\ UNCHANGED <<args, env, pc, aplay_l, aplay_L, candidates, idx, call,
                   plays, tempDir, pipeRet, exitStatus, out, err, runs>>

(***************************************************************************)
(* How main() ends                                                         *)
(***************************************************************************)
\* `return status` of main(), then raise SystemExit(status)
Return(status) ==
    /\ pc' = "done"
    /\ exitStatus' = Some(status)

\* an exception nothing catches: the interpreter prints the traceback and
\* exits with status 1
Uncaught ==
    /\ pc' = "crashed"
    /\ exitStatus' = Some(1)
    /\ err' = Append(err, Traceback)

(***************************************************************************)
(* main(): Validate and Probe                                              *)
(***************************************************************************)
\* Validate with the file check skipped when --list-devices is set
Validate_ListFirst ==
    /\ pc = "validate"
    /\ IF mp3_path \notin existing /\ ~list_devices
       THEN /\ err' = Append(err, "File not found: " \o mp3_path)
            /\ Return(2)
       ELSE /\ pc' = "cards_which"
            /\ UNCHANGED <<err, exitStatus>>
    /\ UNCHANGED <<args, env, installed, aplay_l, aplay_L, candidates, idx,
                   call, plays, tempDir, pipeRet, out, runs>>

Validate ==
    /\ pc = "validate"
    /\ IF mp3_path \notin existing
       THEN /\ err' = Append(err, "File not found: " \o mp3_path)
            /\ Return(2)
       ELSE /\ pc' = "cards_which"
            /\ UNCHANGED <<err, exitStatus>>
    /\ UNCHANGED <<args, env, installed, aplay_l, aplay_L, candidates, idx,
                   call, plays, tempDir, pipeRet, out, runs>>

\* _aplay_list_cards up to its call of _run_capture
AplayListCardsWhich ==
    /\ pc = "cards_which"
    /\ IF _which("aplay") = None
       THEN aplay_l' = "" /\ pc' = "pcms_which"
       ELSE aplay_l' = aplay_l /\ pc' = "cards_run"
    /\ UNCHANGED <<args, env, installed, aplay_L, candidates, idx, call,
                   plays, tempDir, pipeRet, exitStatus, out, err, runs>>

\* _run_capture([aplay, "-l"]).stdout
AplayListCardsRun ==
    /\ pc = "cards_run"
    /\ IF Launchable(ToolPath("aplay"))
       THEN \E text \in CardTexts :
               /\ aplay_l' = text
               /\ runs' = Append(runs, Captured(<<ToolPath("aplay"), "-l">>))
               /\ pc' = "pcms_which"
               /\ UNCHANGED <<exitStatus, err>>
       ELSE /\ runs' = Append(runs, NotLaunched(<<ToolPath("aplay"), "-l">>))
            /\ Uncaught
            /\ UNCHANGED aplay_l
    /\ UNCHANGED <<args, env, installed, aplay_L, candidates, idx, call,
                   plays, tempDir, pipeRet, out>>

\* _aplay_list_pcms up to its call of _run_capture
AplayListPcmsWhich ==
    /\ pc = "pcms_which"
    /\ IF _which("aplay") = None
       THEN aplay_L' = "" /\ pc' = "list"
       ELSE aplay_L' = aplay_L /\ pc' = "pcms_run"
    /\ UNCHANGED <<args, env, installed, aplay_l, candidates, idx, call,
                   plays, tempDir, pipeRet, exitStatus, out, err, runs>>

\* _run_capture([aplay, "-L"]).stdout
AplayListPcmsRun ==
    /\ pc = "pcms_run"
    /\ IF Launchable(ToolPath("aplay"))
       THEN \E text \in PcmTexts :
               /\ aplay_L' = text
               /\ runs' = Append(runs, Captured(<<ToolPath("aplay"), "-L">>))
               /\ pc' = "list"
               /\ UNCHANGED <<exitStatus, err>>
       ELSE /\ runs' = Append(runs, NotLaunched(<<ToolPath("aplay"), "-L">>))
            /\ Uncaught
            /\ UNCHANGED aplay_L
    /\ UNCHANGED <<args, env, installed, aplay_l, candidates, idx, call,
                   plays, tempDir, pipeRet, out>>

(***************************************************************************)
(* main(): ListAndExit, Hint, BuildCandidates                              *)
(***************************************************************************)
TextOrPlaceholder(t) == IF strip(t) # "" THEN strip(t) ELSE Placeholder

\* ListAndExit without its return: the listing is printed and main() goes on
ListAndExit_FallsThrough ==
    /\ pc = "list"
    /\ out' = IF list_devices
              THEN out \o <<"=== aplay -l ===", TextOrPlaceholder(aplay_l),
                            "\n=== aplay -L ===", TextOrPlaceholder(aplay_L)>>
              ELSE out
    /\ pc' = "hint"
    /\ UNCHANGED <<args, env, installed, aplay_l, aplay_L, candidates, idx,
                   call, plays, tempDir, pipeRet, exitStatus, err, runs>>

ListAndExit ==
    /\ pc = "list"
    /\ IF list_devices
       THEN /\ out' = out \o <<"=== aplay -l ===", TextOrPlaceholder(aplay_l),
                               "\n=== aplay -L ===", TextOrPlaceholder(aplay_L)>>
            /\ Return(0)
       ELSE /\ pc' = "hint"
            /\ UNCHANGED <<out, exitStatus>>
    /\ UNCHANGED <<args, env, installed, aplay_l, aplay_L, candidates, idx,
                   call, plays, tempDir, pipeRet, err, runs>>

Hint ==
    /\ pc = "hint"
    /\ err' = IF is_pi /\ ~_guess_pcm5100_card_present(aplay_l, aplay_L)
              THEN Append(err, I2sSetupHint)
              ELSE err
    /\ pc' = "build"
    /\ UNCHANGED <<args, env, installed, aplay_l, aplay_L, candidates, idx,
                   call, plays, tempDir, pipeRet, exitStatus, out, runs>>

BuildCandidates ==
    /\ pc = "build"
    /\ candidates' = _backend_commands(mp3_path, device, loops)
    /\ IF candidates' = <<>>
       THEN /\ err' = Append(err, NoBackendMessage)
            /\ Return(127)
       ELSE /\ pc' = "loop"
            /\ UNCHANGED <<err, exitStatus>>
    /\ UNCHANGED <<args, env, installed, aplay_l, aplay_L, idx, call, plays,
                   tempDir, pipeRet, out, runs>>

(***************************************************************************)
(* main(): the loop over the candidates                                    *)
(***************************************************************************)
\* one iteration for the pipeline descriptor, up to the call of the pipeline
TryNextPipeline ==
    /\ pc = "loop"
    /\ idx <= Len(candidates)
    /\ candidates[idx].exe = PipelineExe
    /\ LET mp3_arg    == candidates[idx].args[1]
           device_arg == candidates[idx].args[2]
           loops_arg  == candidates[idx].args[3]
           msg == "Using backend: ffmpeg + aplay (device=" \o device_arg \o ")"
       IN  IF dry_run
           THEN /\ out' = out \o <<msg, "Would run: ffmpeg <mp3> -> wav -> aplay">>
                /\ Return(0)
                /\ UNCHANGED call
           ELSE /\ out' = Append(out, msg)
                /\ call' = Some([mp3_path |-> mp3_arg, device |-> device_arg,
                                 loops |-> int(loops_arg)])
                /\ pc' = "pipe_which"
                /\ UNCHANGED exitStatus
    /\ UNCHANGED <<args, env, installed, aplay_l, aplay_L, candidates, idx,
                   plays, tempDir, pipeRet, err, runs>>

\* TryNextSimple without the dry-run return
TryNextSimple_IgnoresDryRun ==
    /\ pc = "loop"
    /\ idx <= Len(candidates)
    /\ candidates[idx].exe # PipelineExe
    /\ out' = out \o <<"Using backend: " \o PathName(candidates[idx].exe),
                       "Running: " \o pretty(candidates[idx])>>
    /\ pc' = "run_simple"
    /\ UNCHANGED <<args, env, installed, aplay_l, aplay_L, candidates, idx,
                   call, plays, tempDir, pipeRet, exitStatus, err, runs>>

\* one iteration for a simple descriptor, up to subprocess.run
TryNextSimple ==
    /\ pc = "loop"
    /\ idx <= Len(candidates)
    /\ candidates[idx].exe # PipelineExe
    /\ out' = out \o <<"Using backend: " \o PathName(candidates[idx].exe),
                       "Running: " \o pretty(candidates[idx])>>
    /\ IF dry_run
       THEN Return(0)
       ELSE pc' = "run_simple" /\ UNCHANGED exitStatus
    /\ UNCHANGED <<args, env, installed, aplay_l, aplay_L, candidates, idx,
                   call, plays, tempDir, pipeRet, err, runs>>

\* RunSimple without the except clause: FileNotFoundError is not caught
RunSimple_Uncaught ==
    /\ pc = "run_simple"
    /\ LET cmd == candidates[idx]
       IN  IF ~Launchable(cmd.exe)
           THEN /\ runs' = Append(runs, NotLaunched(as_list(cmd)))
                /\ Uncaught
                /\ UNCHANGED idx
           ELSE \E rc \in ExitCodes :
                /\ runs' = Append(runs, Ran(as_list(cmd), rc))
                /\ IF rc = 0
                   THEN /\ Return(0)
                        /\ UNCHANGED <<idx, err>>
                   ELSE /\ err' = Append(err, "Backend failed with exit code "
                                              \o str(rc) \o "; trying next option...")
                        /\ idx' = idx + 1
                        /\ pc' = "loop"
                        /\ UNCHANGED exitStatus
    /\ UNCHANGED <<args, env, installed, aplay_l, aplay_L, candidates, call,
                   plays, tempDir, pipeRet, out>>

\* subprocess.run of a simple descriptor and what main() does with its result
RunSimple ==
    /\ pc = "run_simple"
    /\ LET cmd == candidates[idx]
       IN  IF ~Launchable(cmd.exe)
           THEN \* except FileNotFoundError: continue
                /\ runs' = Append(runs, NotLaunched(as_list(cmd)))
                /\ idx' = idx + 1
                /\ pc' = "loop"
                /\ UNCHANGED <<err, exitStatus>>
           ELSE \E rc \in ExitCodes :
                /\ runs' = Append(runs, Ran(as_list(cmd), rc))
                /\ IF rc = 0
                   THEN /\ Return(0)
                        /\ UNCHANGED <<idx, err>>
                   ELSE /\ err' = Append(err, "Backend failed with exit code "
                                              \o str(rc) \o "; trying next option...")
                        /\ idx' = idx + 1
                        /\ pc' = "loop"
                        /\ UNCHANGED exitStatus
    /\ UNCHANGED <<args, env, installed, aplay_l, aplay_L, candidates, call,
                   plays, tempDir, pipeRet, out>>

\* AllFailed reporting exhaustion with the "no backend" status
AllFailed_Returns127 ==
    /\ pc = "loop"
    /\ idx > Len(candidates)
    /\ err' = Append(err, "All playback backends failed.")
    /\ Return(127)
    /\ UNCHANGED <<args, env, installed, aplay_l, aplay_L, candidates, idx,
                   call, plays, tempDir, pipeRet, out, runs>>

\* the loop ran out of candidates
AllFailed ==
    /\ pc = "loop"
    /\ idx > Len(candidates)
    /\ err' = Append(err, "All playback backends failed.")
    /\ Return(1)
    /\ UNCHANGED <<args, env, installed, aplay_l, aplay_L, candidates, idx,
                   call, plays, tempDir, pipeRet, out, runs>>

(***************************************************************************)
(* _run_ffmpeg_to_wav_then_aplay                                           *)
(***************************************************************************)
\* the function returns: the `with` block, if entered, removes the directory
PipelineReturns(status) ==
    /\ pipeRet' = Some(status)
    /\ tempDir' = IF tempDir = "exists" THEN "removed" ELSE tempDir
    /\ pc' = "pipe_return"

\* the two lookups, then the TemporaryDirectory is entered
PipelineWhich ==
    /\ pc = "pipe_which"
    /\ IF _which("ffmpeg") = None \/ _which("aplay") = None
       THEN PipelineReturns(127)
       ELSE /\ tempDir' = "exists"
            /\ pc' = "pipe_decode"
            /\ UNCHANGED pipeRet
    /\ UNCHANGED <<args, env, installed, aplay_l, aplay_L, candidates, idx,
                   call, plays, exitStatus, out, err, runs>>

\* PipelineDecode without the check of p1.returncode
PipelineDecode_IgnoresStatus ==
    /\ pc = "pipe_decode"
    /\ LET decode == DecodeArgv(ToolPath("ffmpeg"), call[1].mp3_path)
       IN  IF ~Launchable(ToolPath("ffmpeg"))
           THEN /\ runs' = Append(runs, NotLaunched(decode))
                /\ tempDir' = "removed"
                /\ Uncaught
                /\ UNCHANGED pipeRet
           ELSE \E rc \in ExitCodes :
                /\ runs' = Append(runs, Ran(decode, rc))
                /\ pc' = "pipe_play"
                /\ UNCHANGED <<tempDir, pipeRet, exitStatus, err>>
    /\ UNCHANGED <<args, env, installed, aplay_l, aplay_L, candidates, idx,
                   call, plays, out>>

\* the decode step
PipelineDecode ==
    /\ pc = "pipe_decode"
    /\ LET decode == DecodeArgv(ToolPath("ffmpeg"), call[1].mp3_path)
       IN  IF ~Launchable(ToolPath("ffmpeg"))
           THEN /\ runs' = Append(runs, NotLaunched(decode))
                /\ tempDir' = "removed"
                /\ Uncaught
                /\ UNCHANGED pipeRet
           ELSE \E rc \in ExitCodes :
                /\ runs' = Append(runs, Ran(decode, rc))
                /\ IF rc # 0
                   THEN PipelineReturns(rc)
                   ELSE pc' = "pipe_play" /\ UNCHANGED <<tempDir, pipeRet>>
                /\ UNCHANGED <<exitStatus, err>>
    /\ UNCHANGED <<args, env, installed, aplay_l, aplay_L, candidates, idx,
                   call, plays, out>>

\* one iteration of the play loop (of `while True` when loops < 0, else of
\* `for _ in range(max(1, loops))`), and the return 0 after the last one
PipelinePlay ==
    /\ pc = "pipe_play"
    /\ call[1].loops < 0 => plays < MaxInfPlays
    /\ LET play == PlayArgv(ToolPath("aplay"), call[1].device)
       IN  IF ~Launchable(ToolPath("aplay"))
           THEN /\ runs' = Append(runs, NotLaunched(play))
                /\ tempDir' = "removed"
                /\ Uncaught
                /\ UNCHANGED <<pipeRet, plays>>
           ELSE \E rc \in ExitCodes :
                /\ runs' = Append(runs, Ran(play, rc))
                /\ plays' = plays + 1
                /\ IF rc # 0
                   THEN PipelineReturns(rc)
                   ELSE IF call[1].loops >= 0 /\ plays + 1 >= PlayIterations(call[1].loops)
                   THEN PipelineReturns(0)
                   ELSE UNCHANGED <<pc, tempDir, pipeRet>>
                /\ UNCHANGED <<exitStatus, err>>
    /\ UNCHANGED <<args, env, installed, aplay_l, aplay_L, candidates, idx,
                   call, out>>

\* MainReturnsPipeline treating a pipeline failure like any backend failure
MainReturnsPipeline_AsFailure ==
    /\ pc = "pipe_return"
    /\ Return(IF pipeRet[1] = 0 THEN 0 ELSE 1)
    /\ UNCHANGED <<args, env, installed, aplay_l, aplay_L, candidates, idx,
                   call, plays, tempDir, pipeRet, out, err, runs>>

\* main(): return _run_ffmpeg_to_wav_then_aplay(...)
MainReturnsPipeline ==
    /\ pc = "pipe_return"
    /\ Return(pipeRet[1])
    /\ UNCHANGED <<args, env, installed, aplay_l, aplay_L, candidates, idx,
                   call, plays, tempDir, pipeRet, out, err, runs>>

(***************************************************************************)
(* The program                                                             *)
(***************************************************************************)
Next ==
    \/ Vanish
    \/ Validate
    \/ AplayListCardsWhich
    \/ AplayListCardsRun
    \/ AplayListPcmsWhich
    \/ AplayListPcmsRun
    \/ ListAndExit
    \/ Hint
    \/ BuildCandidates
    \/ TryNextPipeline
    \/ TryNextSimple
    \/ RunSimple
    \/ AllFailed
    \/ PipelineWhich
    \/ PipelineDecode
    \/ PipelinePlay
    \/ MainReturnsPipeline

Spec == Init /\ [][Next]_vars

TypeOK ==
    /\ pc \in {"validate", "cards_which", "cards_run", "pcms_which", "pcms_run",
               "list", "hint", "build", "loop", "run_simple", "pipe_which",
               "pipe_decode", "pipe_play", "pipe_return", "done", "crashed"}
    /\ installed \subseteq Tools
    /\ tempDir \in {"none", "exists", "removed"}
    /\ Len(exitStatus) <= 1
    /\ Len(pipeRet) <= 1
    /\ idx \in 1..(Len(candidates) + 1)
    /\ plays >= 0

(***************************************************************************)
(* Vocabulary of the properties                                            *)
(***************************************************************************)
Range(seq) == {seq[i] : i \in 1..Len(seq)}
Last(seq) == seq[Len(seq)]

\* the backend a descriptor stands for
Label(cmd) ==
    IF cmd.exe = PipelineExe THEN "C"
    ELSE IF cmd.exe = ToolPath("mpg123") THEN "A"
    ELSE IF cmd.exe = ToolPath("ffplay") THEN "B"
    ELSE "?"

\* the executables a backend needs, and the backends a set of tools provides,
\* in preference order
Required(b) ==
    CASE b = "A" -> {"mpg123"}
      [] b = "B" -> {"ffplay"}
      [] b = "C" -> {"ffmpeg", "aplay"}
IsLocatedIn(S, b) == Required(b) \subseteq S
LocatedBackends(S) ==
    (IF IsLocatedIn(S, "A") THEN <<"A">> ELSE <<>>)
    \o (IF IsLocatedIn(S, "B") THEN <<"B">> ELSE <<>>)
    \o (IF IsLocatedIn(S, "C") THEN <<"C">> ELSE <<>>)

\* kinds of subprocess.run calls
IsProbe(r) == r.argv \in {<<ToolPath("aplay"), "-l">>, <<ToolPath("aplay"), "-L">>}
IsSimple(r) == r.argv[1] \in {ToolPath("mpg123"), ToolPath("ffplay")}
IsDecode(r) == r.argv[1] = ToolPath("ffmpeg")
IsPlay(r) == r.argv[1] = ToolPath("aplay") /\ ~IsProbe(r)
Spawned(r) == r.result[1] # "FileNotFoundError"
Exited(r) == r.result[1] = "exited"
ExitedWith(r, rc) == Exited(r) /\ r.result[2] = rc
Failed(r) == ~ExitedWith(r, 0)

SimpleRuns == SelectSeq(runs, IsSimple)
PlayRuns == SelectSeq(runs, IsPlay)
DecodeRuns == SelectSeq(runs, IsDecode)

FileExists == mp3_path \in existing
PolicyValues == {0, 2, 127, 1}
AllFailedLine == "All playback backends failed."
BackendFailedLine(rc) == "Backend failed with exit code " \o str(rc) \o "; trying next option..."

\* the token that follows flag in an argument list (None when flag is absent)
ArgAfter(argv, flag) ==
    IF \E i \in 1..(Len(argv) - 1) : argv[i] = flag
    THEN Some(argv[(CHOOSE i \in 1..(Len(argv) - 1) : argv[i] = flag) + 1])
    ELSE None

(***************************************************************************)
(* C1                                                                      *)
(***************************************************************************)
\* C1: when main() has returned, its status is the pipeline's own return
\* value if the pipeline was executed (127 when it ran no child, else the
\* non-zero status of its last child, else 0), and otherwise one of the
\* policy values 0, 2, 127, 1 -- whatever status a simple backend failed with.
C1_ExitStatusPolicy ==
    pc = "done" =>
        IF pipeRet # None
        THEN /\ exitStatus = pipeRet
             /\ \/ pipeRet[1] = 0
                \/ pipeRet[1] = 127 /\ DecodeRuns = <<>> /\ PlayRuns = <<>>
                \/ pipeRet[1] # 0 /\ DecodeRuns # <<>> /\ ExitedWith(Last(runs), pipeRet[1])
        ELSE exitStatus[1] \in PolicyValues

\* a simple backend failed with 1, then the pipeline failed with 5: exit 5
C1_Witness ==
    /\ pc = "done"
    /\ pipeRet = Some(5)
    /\ exitStatus = Some(5)
    /\ SimpleRuns # <<>>
    /\ ExitedWith(SimpleRuns[1], 1)

(***************************************************************************)
(* C2                                                                      *)
(***************************************************************************)
\* C2: with a file path that does not exist, main() exits 2 and the run holds
\* no subprocess.run call at all (no probe, no backend) and no candidates.
C2_MissingFile ==
    ~FileExists =>
        /\ runs = <<>>
        /\ candidates = <<>>
        /\ call = None
        /\ pc \in {"validate", "done"}
        /\ pc = "done" => exitStatus = Some(2) /\ err = <<"File not found: " \o mp3_path>>

C2_Witness ==
    /\ ~FileExists
    /\ pc = "done"
    /\ exitStatus = Some(2)
    /\ installed = Tools
    /\ list_devices
    /\ dry_run

(***************************************************************************)
(* C3                                                                      *)
(***************************************************************************)
\* C3 as stated: with --list-devices, main() returns 0 and never attempts
\* playback, even if the file does not exist.
C3_AsStated ==
    list_devices =>
        /\ candidates = <<>>
        /\ \A i \in 1..Len(runs) : IsProbe(runs[i])
        /\ pc = "done" => exitStatus = Some(0)

\* C3 amended: with --list-devices, no candidate is generated and no backend
\* process is run; when main() returns, it returns 0 if the file exists
\* (having printed the two headed blocks) and 2 if it does not.
C3_ListDevices ==
    list_devices =>
        /\ candidates = <<>>
        /\ call = None
        /\ \A i \in 1..Len(runs) : IsProbe(runs[i])
        /\ pc = "done" =>
              IF FileExists
              THEN exitStatus = Some(0) /\ Len(out) = 4 /\ err = <<>>
              ELSE exitStatus = Some(2) /\ out = <<>>

C3_Witness ==
    /\ list_devices
    /\ FileExists
    /\ pc = "done"
    /\ exitStatus = Some(0)
    /\ {"mpg123", "aplay"} \subseteq installed
    /\ Len(runs) = 2
    /\ ~dry_run

(***************************************************************************)
(* C4                                                                      *)
(***************************************************************************)
\* C4 as stated: with --dry-run, an existing file and a backend available, a
\* run that has ended spawned no child process and exited 0.
C4_AsStated ==
    (dry_run /\ FileExists /\ candidates # <<>> /\ pc = "done") =>
        /\ \A i \in 1..Len(runs) : ~Spawned(runs[i])
        /\ exitStatus = Some(0)

\* C4 amended: with --dry-run, the only child processes are the two aplay
\* listings of the probe; no backend process (simple, decode or play) is ever
\* launched, and once a candidate exists main() returns 0 right after
\* announcing the first one.
C4_DryRun ==
    dry_run =>
        /\ \A i \in 1..Len(runs) : IsProbe(runs[i])
        /\ call = None
        /\ tempDir = "none"
        /\ pc \notin {"run_simple", "pipe_which", "pipe_decode", "pipe_play", "pipe_return"}
        /\ (candidates # <<>> /\ pc \in {"done", "crashed"}) =>
              /\ pc = "done"
              /\ exitStatus = Some(0)
              /\ idx = 1
              /\ out = IF candidates[1].exe = PipelineExe
                       THEN <<"Using backend: ffmpeg + aplay (device="
                                 \o candidates[1].args[2] \o ")",
                              "Would run: ffmpeg <mp3> -> wav -> aplay">>
                       ELSE <<"Using backend: " \o PathName(candidates[1].exe),
                              "Running: " \o pretty(candidates[1])>>

\* a dry run that announced a simple backend after the probe ran aplay twice
C4_Witness ==
    /\ dry_run
    /\ pc = "done"
    /\ candidates # <<>>
    /\ candidates[1].exe = ToolPath("mpg123")
    /\ Len(runs) = 2
    /\ Spawned(runs[1])
    /\ exitStatus = Some(0)

(***************************************************************************)
(* C5                                                                      *)
(***************************************************************************)
\* the attempts so far follow the candidate list: the j-th simple launch is
\* of the j-th candidate, every attempt but the last one failed, the pipeline
\* is entered only after every simple candidate failed, and a status 0 ends
\* the run with exit status 0 and nothing launched after it
C5_AttemptsInOrder ==
    /\ Len(SimpleRuns) <= Len(candidates)
    /\ \A j \in 1..Len(SimpleRuns) :
          /\ SimpleRuns[j].argv = as_list(candidates[j])
          /\ j < Len(SimpleRuns) => Failed(SimpleRuns[j])
    /\ pc \in {"loop", "run_simple"} => Len(SimpleRuns) = idx - 1
    /\ pc = "loop" => \A j \in 1..Len(SimpleRuns) : Failed(SimpleRuns[j])
    /\ call # None =>
          /\ idx = Len(candidates)
          /\ Len(SimpleRuns) = idx - 1
          /\ \A j \in 1..Len(SimpleRuns) : Failed(SimpleRuns[j])
    /\ (DecodeRuns # <<>> \/ PlayRuns # <<>>) => call # None
    /\ \A i \in 1..Len(runs) :
          (IsSimple(runs[i]) /\ ExitedWith(runs[i], 0)) =>
              i = Len(runs) /\ pc = "done" /\ exitStatus = Some(0) /\ call = None
    /\ (pc = "done" /\ pipeRet = Some(0)) => exitStatus = Some(0)

\* the candidates generated are A, B, C in this order, restricted to the
\* backends whose executables are on the search path at that moment
C5_CandidatesBuilt ==
    (pc = "build" /\ pc' # "build") =>
        /\ Len(candidates') = Len(LocatedBackends(installed))
        /\ \A i \in 1..Len(candidates') :
              Label(candidates'[i]) = LocatedBackends(installed)[i]

\* C5: backends are attempted strictly in the order A, B, C restricted to the
\* located ones, each only after every earlier one was attempted and failed,
\* and the first status 0 ends the run with exit status 0.
C5_OrderedFallback ==
    C5_AttemptsInOrder /\ [][C5_CandidatesBuilt /\ C5_AttemptsInOrder']_vars

\* A was attempted and failed, B was attempted and returned 0, C was located
\* and never attempted
C5_Witness ==
    /\ pc = "done"
    /\ Len(candidates) = 3
    /\ Len(SimpleRuns) = 2
    /\ ExitedWith(SimpleRuns[1], 5)
    /\ ExitedWith(SimpleRuns[2], 0)
    /\ call = None
    /\ exitStatus = Some(0)

(***************************************************************************)
(* C6                                                                      *)
(***************************************************************************)
\* every located backend was tried and each one failed: the loop ran past the
\* last candidate, or the pipeline (always the last candidate) returned a
\* non-zero status
EverySimpleFailed == candidates # <<>> /\ idx > Len(candidates)
PipelineFailed == pipeRet # None /\ pipeRet[1] # 0

\* C6 as stated: whenever every located backend was tried and each failed,
\* the run ends with the final line on stderr and exit status 1.
C6_AsStated ==
    (pc = "done" /\ (EverySimpleFailed \/ PipelineFailed)) =>
        /\ exitStatus = Some(1)
        /\ err # <<>>
        /\ Last(err) = AllFailedLine

\* C6 amended: when every located backend was tried and failed and the
\* pipeline was not one of them, the run ends with the final line on stderr
\* and exit status 1; when the last one tried was the pipeline, main() returns
\* the pipeline's status and the final line is not printed.
C6_Exhaustion ==
    pc = "done" =>
        /\ EverySimpleFailed =>
              /\ exitStatus = Some(1)
              /\ Last(err) = AllFailedLine
              /\ \A j \in 1..Len(candidates) : Label(candidates[j]) # "C"
              /\ Len(SimpleRuns) = Len(candidates)
              /\ \A j \in 1..Len(SimpleRuns) : Failed(SimpleRuns[j])
        /\ PipelineFailed =>
              /\ exitStatus = pipeRet
              /\ AllFailedLine \notin Range(err)
        /\ AllFailedLine \in Range(err) => EverySimpleFailed

\* A and B were both tried and both failed, no pipeline was located
C6_Witness ==
    /\ pc = "done"
    /\ Len(candidates) = 2
    /\ idx = 3
    /\ ExitedWith(SimpleRuns[1], 5)
    /\ ExitedWith(SimpleRuns[2], 1)
    /\ exitStatus = Some(1)

(***************************************************************************)
(* C7                                                                      *)
(***************************************************************************)
\* C7 as stated: every failure of a simple backend (a non-zero status or a
\* vanished executable) adds one line to stderr and advances the loop.
C7_AsStated ==
    [][(pc = "run_simple" /\ pc' # pc /\ Failed(Last(runs'))) =>
          /\ pc' = "loop"
          /\ idx' = idx + 1
          /\ Len(err') = Len(err) + 1]_vars

\* C7 amended: a failure of a simple backend is never fatal and always
\* advances to the next candidate; a non-zero status is first reported by one
\* line on stderr, a vanished executable (FileNotFoundError) is skipped with
\* no diagnostic at all.
C7_SimpleFailureRecovered ==
    [][(pc = "run_simple" /\ pc' # pc /\ Failed(Last(runs'))) =>
          /\ Last(runs').argv = as_list(candidates[idx])
          /\ pc' = "loop"
          /\ idx' = idx + 1
          /\ exitStatus' = None
          /\ out' = out
          /\ err' = IF Exited(Last(runs'))
                    THEN Append(err, BackendFailedLine(Last(runs').result[2]))
                    ELSE err]_vars

\* A had vanished when it was launched, B failed with status 5: one line on
\* stderr for B, none for A, and the loop went on to its end
C7_Witness ==
    /\ pc = "done"
    /\ Len(SimpleRuns) = 2
    /\ ~Spawned(SimpleRuns[1])
    /\ ExitedWith(SimpleRuns[2], 5)
    /\ err = <<BackendFailedLine(5), AllFailedLine>>
    /\ ~is_pi

(***************************************************************************)
(* C8                                                                      *)
(***************************************************************************)
\* C8: in the generated candidates, for loop count N: N = 1 gives neither A
\* nor B a loop argument; N < 0 gives A "--loop -1" and B "-loop 0"; N > 1
\* gives A the numeral of N and B the numeral of N - 1.
C8_LoopArguments ==
    \A i \in 1..Len(candidates) :
        LET c == candidates[i]
            a == ArgAfter(c.args, "--loop")
            b == ArgAfter(c.args, "-loop")
        IN  /\ Label(c) = "A" =>
                  /\ b = None
                  /\ loops = 1 => a = None
                  /\ loops < 0 => a = Some("-1")
                  /\ loops > 1 => a # None /\ int(a[1]) = loops
            /\ Label(c) = "B" =>
                  /\ a = None
                  /\ loops = 1 => b = None
                  /\ loops < 0 => b = Some("0")
                  /\ loops > 1 => b # None /\ int(b[1]) = loops - 1

\* both A and B were generated for a loop count above 1
C8_Witness ==
    /\ Len(candidates) >= 2
    /\ Label(candidates[1]) = "A"
    /\ Label(candidates[2]) = "B"
    /\ loops > 1
    /\ ArgAfter(candidates[2].args, "-loop") # None

(***************************************************************************)
(* C9                                                                      *)
(***************************************************************************)
\* C9: if the decode step exits with a non-zero status s, the pipeline returns
\* s with no play step launched; and once the pipeline has returned (or was
\* left by an exception) its temporary directory no longer exists.
C9_DecodeFailure ==
    /\ (pipeRet # None \/ pc \in {"pipe_return", "done", "crashed"}) => tempDir # "exists"
    /\ pc \in {"pipe_decode", "pipe_play"} => tempDir = "exists"
    /\ PlayRuns # <<>> => DecodeRuns # <<>> /\ ExitedWith(DecodeRuns[1], 0)
    /\ Len(DecodeRuns) <= 1
    /\ (DecodeRuns # <<>> /\ Exited(DecodeRuns[1]) /\ ~ExitedWith(DecodeRuns[1], 0)) =>
          /\ pipeRet = Some(DecodeRuns[1].result[2])
          /\ PlayRuns = <<>>
          /\ tempDir = "removed"
          /\ pc \in {"pipe_return", "done"}
          /\ pc = "done" => exitStatus = pipeRet

\* only the pipeline was located, its decode step exited with 5
C9_Witness ==
    /\ pc = "done"
    /\ Len(candidates) = 1
    /\ DecodeRuns # <<>>
    /\ ExitedWith(DecodeRuns[1], 5)
    /\ exitStatus = Some(5)
    /\ tempDir = "removed"

(***************************************************************************)
(* C10                                                                     *)
(***************************************************************************)
\* C10: after a successful decode the play step is governed by the requested
\* loop count N alone: every play attempt but the last exited 0; a non-zero
\* play status is returned at once; for N >= 1 there are at most N attempts
\* and the pipeline returns 0 exactly after N attempts that exited 0; for
\* N < 0 the pipeline never returns 0.
C10_PlayLoop ==
    LET n == Len(PlayRuns)
    IN  /\ \A j \in 1..n : j < n => ExitedWith(PlayRuns[j], 0)
        /\ loops >= 1 => n <= loops
        /\ (n > 0 /\ Exited(PlayRuns[n]) /\ ~ExitedWith(PlayRuns[n], 0)) =>
              pipeRet = Some(PlayRuns[n].result[2])
        /\ (n > 0 /\ pipeRet # None) =>
              /\ Exited(PlayRuns[n])
              /\ pipeRet = Some(PlayRuns[n].result[2])
        /\ (n > 0 /\ pipeRet = Some(0) /\ loops >= 1) => n = loops
        /\ (loops >= 1 /\ n = loops /\ ExitedWith(PlayRuns[n], 0)) => pipeRet = Some(0)
        /\ (loops < 0 /\ pipeRet # None) => pipeRet[1] # 0
        /\ (loops < 0 /\ n > 0 /\ ExitedWith(PlayRuns[n], 0)) => pc = "pipe_play"

\* N = 2 and both play attempts exited 0
C10_Witness ==
    /\ loops = 2
    /\ Len(PlayRuns) = 2
    /\ ExitedWith(PlayRuns[2], 0)
    /\ pipeRet = Some(0)
    /\ pc = "done"

\* N < 0: a second play attempt followed a first one that exited 0, and its
\* non-zero status ended the pipeline
C10_WitnessInfinite ==
    /\ loops < 0
    /\ Len(PlayRuns) = 2
    /\ pipeRet = Some(5)

=============================================================================
